---- MODULE Spec2Model ----
(***************************************************************************)
(* A model of githooks/git.py: the lazily resolved Commit and              *)
(* CommittedFile entities, the parsers of git's plumbing output, and the   *)
(* enumeration of the commits a push introduces.                           *)
(*                                                                         *)
(* Python text values are records [t, s]: t is "bytes" or "str" and s is   *)
(* the sequence of one-character strings.  Two values of different type    *)
(* are never equal, as in Python 3.  An optional value (None, or an        *)
(* attribute that was never assigned) is the empty sequence <<>>, a        *)
(* present value v is <<v>>.                                               *)
(***************************************************************************)
EXTENDS Integers, Sequences, FiniteSets, TLC

VARIABLES
    commit,       \* the Commit object under inspection (its attributes)
    file,         \* the CommittedFile object under inspection
    commit_list,  \* what get_new_commit_list() returned last
    repo,         \* the repository: commit graph, references, pushed tip
    input,        \* the output the command runner gives in the parser specifications
    pt,           \* parse_tags(): its position and locals
    ret,          \* the outcome of the last call: operation, return or raise, value
    ncalls,       \* number of check_output() invocations so far
    first         \* per accessor, the value its first successful call returned

vars == <<commit, file, commit_list, repo, input, pt, ret, ncalls, first>>

----------------------------------------------------------------------------
(* Bounds of the model.                                                    *)

MaxCalls == 2
MaxSummary == 4
MaxLink == 4
MaxRecords == 2
MaxCommits == 3

----------------------------------------------------------------------------
(* Python values.                                                          *)

None == <<>>
Some(v) == <<v>>

Bytes(s) == [t |-> "bytes", s |-> s]
Str(s) == [t |-> "str", s |-> s]

\* githooks.utils.decode_str: bytes to str (the model's alphabet is ASCII).
decode_str(b) == [t |-> "str", s |-> b.s]

\* str(b, encoding='utf-8')
str_utf8(b) == [t |-> "str", s |-> b.s]

\* Python's ==: values of different types are unequal.
PyEq(x, y) == x.t = y.t /\ x.s = y.s

----------------------------------------------------------------------------
(* String algorithms on raw character sequences.                           *)

IsSpace(ch) == ch \in {" ", "\t", "\n"}

Take(s, n) == SubSeq(s, 1, IF n < Len(s) THEN n ELSE Len(s))
Drop(s, n) == SubSeq(s, n + 1, Len(s))

\* s.startswith(p)
startswith(s, p) == Len(p) <= Len(s) /\ SubSeq(s, 1, Len(p)) = p

\* The least member of S, or d when S is empty.
MinOr(S, d) == IF S = {} THEN d ELSE CHOOSE i \in S : \A j \in S : i <= j

\* The greatest member of S, or d when S is empty.
MaxOr(S, d) == IF S = {} THEN d ELSE CHOOSE i \in S : \A j \in S : i >= j

\* The 0-based indices at which p occurs in s.
Occurrences(s, p) == {i \in 0..(Len(s) - Len(p)) : SubSeq(s, i + 1, i + Len(p)) = p}

\* s.find(p): the 0-based index of the first occurrence of p, or -1
find(s, p) == MinOr(Occurrences(s, p), -1)

\* p in s
contains(s, p) == find(s, p) >= 0

RECURSIVE lstrip(_)
lstrip(s) == IF s # <<>> /\ IsSpace(Head(s)) THEN lstrip(Tail(s)) ELSE s

RECURSIVE rstrip(_)
rstrip(s) ==
    IF s # <<>> /\ IsSpace(s[Len(s)]) THEN rstrip(SubSeq(s, 1, Len(s) - 1)) ELSE s

strip(s) == rstrip(lstrip(s))

\* The length of the leading run of non-whitespace characters.
RECURSIVE WordLen(_)
WordLen(s) == IF s = <<>> \/ IsSpace(Head(s)) THEN 0 ELSE 1 + WordLen(Tail(s))

\* s.split(None, maxsplit); maxsplit < 0 means no limit.  Once maxsplit words
\* are taken, the remainder is kept whole with its leading whitespace skipped.
RECURSIVE split_ws(_, _)
SplitWord(t, maxsplit, n) == <<Take(t, n)>> \o split_ws(Drop(t, n), maxsplit - 1)

SplitStripped(t, maxsplit) ==
    IF t = <<>> THEN <<>>
    ELSE IF maxsplit = 0 THEN <<t>>
    ELSE SplitWord(t, maxsplit, WordLen(t))

split_ws(s, maxsplit) == SplitStripped(lstrip(s), maxsplit)

\* s.split(sep, maxsplit) with a non-empty separator; maxsplit < 0 means no limit.
RECURSIVE split_sep(_, _, _)
SplitAt(s, sep, maxsplit, i) ==
    IF maxsplit = 0 \/ i < 0 THEN <<s>>
    ELSE <<Take(s, i)>> \o split_sep(Drop(s, i + Len(sep)), sep, maxsplit - 1)

split_sep(s, sep, maxsplit) == SplitAt(s, sep, maxsplit, find(s, sep))

\* s[i:] when i >= 0, else s
DropFrom(s, i) == IF i < 0 THEN s ELSE Drop(s, i)

\* s.rsplit(sep, 1)[-1]
rsplit_last(s, sep) == DropFrom(s, MaxOr({i + Len(sep) : i \in Occurrences(s, sep)}, -1))

\* s.splitlines(): the lines without their line ends; a final line end opens
\* no further line.
RECURSIVE splitlines(_)
SplitLineAt(s, i) ==
    IF i < 0 THEN <<s>> ELSE <<Take(s, i)>> \o splitlines(Drop(s, i + 1))

splitlines(s) == IF s = <<>> THEN <<>> ELSE SplitLineAt(s, find(s, <<"\n">>))

\* s.replace(a, b) for single characters
replace(s, a, b) == [i \in 1..Len(s) |-> IF s[i] = a THEN b ELSE s[i]]

\* sep.join(parts)
RECURSIVE join(_, _)
join(sep, parts) ==
    IF parts = <<>> THEN <<>>
    ELSE IF Len(parts) = 1 THEN parts[1]
    ELSE parts[1] \o sep \o join(sep, Tail(parts))

----------------------------------------------------------------------------
(* os.path on POSIX, as imported by git.py.                                *)

isabs(s) == startswith(s, <<"/">>)

\* joinpath(a, b): b replaces a when it is absolute, else it is appended
\* after one '/'.
joinpath2(a, b) ==
    IF startswith(b, <<"/">>) THEN b
    ELSE IF a = <<>> \/ a[Len(a)] = "/" THEN a \o b
    ELSE a \o <<"/">> \o b

joinpath(a, b, c) == joinpath2(joinpath2(a, b), c)

\* The component loop of normpath: '' and '.' are dropped, '..' pops the
\* previous component unless there is none (relative path) or it is '..'.
RECURSIVE NormComps(_, _, _)
NormStep(c, rest, acc, rooted) ==
    IF c = <<>> \/ c = <<".">> THEN NormComps(rest, acc, rooted)
    ELSE IF c # <<".", ".">>
            \/ (~rooted /\ acc = <<>>)
            \/ (acc # <<>> /\ acc[Len(acc)] = <<".", ".">>)
         THEN NormComps(rest, Append(acc, c), rooted)
    ELSE IF acc # <<>>
         THEN NormComps(rest, SubSeq(acc, 1, Len(acc) - 1), rooted)
    ELSE NormComps(rest, acc, rooted)

NormComps(comps, acc, rooted) ==
    IF comps = <<>> THEN acc ELSE NormStep(Head(comps), Tail(comps), acc, rooted)

\* The number of leading slashes normpath keeps: exactly two stay two, any
\* other number of them is one.
InitialSlashes(path) ==
    IF ~startswith(path, <<"/">>) THEN 0
    ELSE IF startswith(path, <<"/", "/">>) /\ ~startswith(path, <<"/", "/", "/">>) THEN 2
    ELSE 1

OrDot(path) == IF path = <<>> THEN <<".">> ELSE path

NormJoin(path, slashes) ==
    OrDot(SubSeq(<<"/", "/">>, 1, slashes)
          \o join(<<"/">>, NormComps(split_sep(path, <<"/">>, -1), <<>>, slashes > 0)))

normpath(path) == IF path = <<>> THEN <<".">> ELSE NormJoin(path, InitialSlashes(path))

----------------------------------------------------------------------------
(* Literals of git.py.                                                     *)

kw_parent == <<"p", "a", "r", "e", "n", "t", " ">>
kw_author == <<"a", "u", "t", "h", "o", "r", " ">>
kw_committer == <<"c", "o", "m", "m", "i", "t", "t", "e", "r", " ">>
kw_push == <<"p", "u", "s", "h">>
kw_shebang == <<"#", "!">>
kw_env == <<"/", "u", "s", "r", "/", "b", "i", "n", "/", "e", "n", "v">>
kw_shebang_env == kw_shebang \o kw_env

----------------------------------------------------------------------------
(* Outcomes of a call.                                                     *)

Returned(v) == [ok |-> TRUE, val |-> Some(v), exc |-> ""]
Raised(e) == [ok |-> FALSE, val |-> None, exc |-> e]

\* The command runner (subprocess.check_output): its outcome is None when
\* the command exits non-zero (CalledProcessError), else Some(output bytes).
RunFailed == None
RunOutput(s) == Some(Bytes(s))

----------------------------------------------------------------------------
(* Contributor                                                             *)

Digits == <<"0", "1", "2", "3", "4", "5", "6", "7", "8", "9">>

DigitValue(ch) == (CHOOSE i \in 1..10 : Digits[i] = ch) - 1

IsDigits(s) == s # <<>> /\ \A i \in 1..Len(s) : \E d \in 1..10 : Digits[d] = s[i]

\* int(s) of a string of decimal digits
RECURSIVE ParseInt(_)
ParseInt(s) ==
    IF s = <<>> THEN 0 ELSE 10 * ParseInt(SubSeq(s, 1, Len(s) - 1)) + DigitValue(s[Len(s)])

\* Contributor.parse(line): "name <email> timestamp zone".  Each two-target
\* unpacking raises ValueError when the separator is absent, and so does int().
ParseStamp(name, email, c) ==
    IF Len(c) # 2 \/ ~IsDigits(c[1]) THEN Raised("ValueError")
    ELSE Returned([name |-> decode_str(Bytes(name)),
                   email |-> decode_str(Bytes(email)),
                   timestamp |-> ParseInt(c[1])])

ParseEmail(name, b) ==
    IF Len(b) # 2 THEN Raised("ValueError")
    ELSE ParseStamp(name, b[1], split_sep(b[2], <<" ">>, 1))

ParseName(a) ==
    IF Len(a) # 2 THEN Raised("ValueError")
    ELSE ParseEmail(a[1], split_sep(a[2], <<">", " ">>, 1))

Contributor_parse(line) == ParseName(split_sep(line.s, <<" ", "<">>, 1))

----------------------------------------------------------------------------
(* Commit                                                                  *)

\* Commit(commit_id): a fresh object; Unset attributes are <<>>.
NewCommit(id) ==
    [commit_id |-> id,
     content_fetched |-> FALSE,
     project_fetched |-> FALSE,
     changed_files |-> None,
     binary_files |-> None,
     parents |-> <<>>,
     author |-> <<>>,
     committer |-> <<>>,
     message_lines |-> <<>>,
     projects |-> <<>>]

\* A Commit as a value held in a list: only its identity is observed.
CommitRef(id) == [commit_id |-> id]

\* Commit.__eq__
Commit_eq(a, b) == PyEq(a.commit_id, b.commit_id)

\* `self._author = Contributor.parse(...)`: the assignment happens only when
\* parse returned.
Assign(st, attr, r) ==
    IF r.ok THEN [st EXCEPT ![attr] = r.val] ELSE [st EXCEPT !.exc = r.exc]

\* One line of the header loop of _fetch_content.
HeaderLine(st, line) ==
    IF startswith(line, kw_parent)
    THEN [st EXCEPT !.parents =
            Append(@, CommitRef(Bytes(rstrip(Drop(line, Len(kw_parent))))))]
    ELSE IF startswith(line, kw_author)
    THEN Assign(st, "author", Contributor_parse(Bytes(Drop(line, Len(kw_author)))))
    ELSE IF startswith(line, kw_committer)
    THEN Assign(st, "committer", Contributor_parse(Bytes(Drop(line, Len(kw_committer)))))
    ELSE st

\* The header loop of _fetch_content over the lines before the blank line; it
\* stops at the first exception, keeping what was assigned until then.
RECURSIVE FetchHeaders(_, _)
FetchHeaders(lines, st) ==
    IF lines = <<>> \/ st.exc # "" THEN st
    ELSE FetchHeaders(Tail(lines), HeaderLine(st, Head(lines)))

\* The index of the first empty line, or Len + 1.
FirstBlank(lines) == MinOr({i \in 1..Len(lines) : lines[i] = <<>>}, Len(lines) + 1)

\* The end of _fetch_content: the attributes the header loop assigned, and,
\* unless it raised, the message lines and content_fetched.
StoreContent(c, st, message) ==
    [c |-> [c EXCEPT !.parents = Some(st.parents),
                     !.author = st.author,
                     !.committer = st.committer,
                     !.message_lines = IF st.exc = "" THEN Some(message) ELSE Some(<<>>),
                     !.content_fetched = (st.exc = "")],
     exc |-> st.exc]

FetchFrom(c, lines, k) ==
    StoreContent(c,
                 FetchHeaders(SubSeq(lines, 1, k - 1),
                              [parents |-> <<>>, author |-> c.author,
                               committer |-> c.committer, exc |-> ""]),
                 [i \in 1..(Len(lines) - k) |-> decode_str(Bytes(lines[k + i]))])

FetchLines(c, lines) == FetchFrom(c, lines, FirstBlank(lines))

\* Commit._fetch_content on the object c with the runner's outcome `out`:
\* [c |-> the object afterwards, exc |-> "" or the exception raised].
fetch_content(c, out) ==
    IF out = RunFailed THEN [c |-> c, exc |-> "CalledProcessError"]
    ELSE FetchLines(c, splitlines(out[1].s))

\* `if not self.content_fetched: self._fetch_content()`
NeedsContent(c) == ~c.content_fetched

\* `return self._<attr>`: reading an attribute that was never assigned raises
\* AttributeError.
ReadAttr(f, attr, need) ==
    [c |-> f.c,
     invoked |-> need,
     res |-> IF f.exc # "" THEN Raised(f.exc)
             ELSE IF f.c[attr] = <<>> THEN Raised("AttributeError")
             ELSE Returned(f.c[attr][1])]

\* An accessor of the commit body: fetch when needed, then read the attribute.
\* [c, res, invoked]
body_accessor(c, attr, out) ==
    IF NeedsContent(c) THEN ReadAttr(fetch_content(c, out), attr, TRUE)
    ELSE ReadAttr([c |-> c, exc |-> ""], attr, FALSE)

\* The end of _get_project_info: the last '/' segment of the URL, up to its
\* first '.'.
StoreProject(o, segs) ==
    [c |-> [o EXCEPT !.projects = Some(Some(Str(split_sep(segs[Len(segs)], <<".">>, -1)[1]))),
                     !.project_fetched = TRUE],
     exc |-> ""]

\* `temp.replace(" ", "\t").split("\t")[1]`
ProjectUrl(o, fields) ==
    IF Len(fields) < 2 THEN [c |-> o, exc |-> "IndexError"]
    ELSE StoreProject(o, split_sep(fields[2], <<"/">>, -1))

\* `[... for _ in lines if "push" in ...][0]`
FirstPush(o, pushes) ==
    IF pushes = <<>> THEN [c |-> o, exc |-> "IndexError"]
    ELSE ProjectUrl(o, split_sep(replace(pushes[1], " ", "\t"), <<"\t">>, -1))

HasPush(l) == contains(str_utf8(Bytes(l)).s, kw_push)

\* Commit._get_project_info (and CommittedFile._get_project_info, the same
\* code) on an object o: [c |-> the object afterwards, exc].
get_project_info(o, out) ==
    IF out = RunFailed THEN [c |-> o, exc |-> "CalledProcessError"]
    ELSE FirstPush([o EXCEPT !.projects = Some(None)],
                   SelectSeq(splitlines(out[1].s), HasPush))

\* `if not self.project_fetched: self._get_project_info()`
NeedsProjects(o) == ~o.project_fetched

\* `return self._projects`
ReadProjects(f, need) ==
    [c |-> f.c,
     invoked |-> need,
     res |-> IF f.exc # "" THEN Raised(f.exc) ELSE Returned(f.c.projects[1])]

\* get_projects() of a Commit or a CommittedFile; the value is None or Some(str).
get_projects(o, out) ==
    IF NeedsProjects(o) THEN ReadProjects(get_project_info(o, out), TRUE)
    ELSE ReadProjects([c |-> o, exc |-> ""], FALSE)

\* CommittedFile(path, commit, mode, object_id) as git.py constructs it; the
\* constructor asserts that a given mode has six characters.
NewFile(path, c, mode, object_id) ==
    [path |-> path,
     commit |-> CommitRef(c.commit_id),
     mode |-> mode,
     object_id |-> object_id,
     content |-> None,
     project_fetched |-> FALSE,
     projects |-> <<>>]

ModeOk(mode) == mode = None \/ Len(mode[1].s) = 6

\* One record of get_changed_files: None when an assertion fails, else
\* Some(CommittedFile) with fields 1, 3 and 5 of the split line.
ChangedFile(c, line_split) ==
    IF Len(line_split) # 6 THEN None
    ELSE IF ~startswith(line_split[1], <<":">>) THEN None
    ELSE IF ~ModeOk(Some(Str(line_split[2]))) THEN None
    ELSE Some(NewFile(Str(line_split[6]), c, Some(Str(line_split[2])),
                      Some(Str(line_split[4]))))

\* The loop of get_changed_files over the lines of the diff-tree output:
\* Some(list), or None when an assertion failed.
RECURSIVE changed_files_of(_, _, _)
AddChanged(c, rest, acc, f) ==
    IF f = None THEN None ELSE changed_files_of(c, rest, acc \o f)

changed_files_of(c, lines, acc) ==
    IF lines = <<>> THEN Some(acc)
    ELSE AddChanged(c, Tail(lines), acc, ChangedFile(c, split_ws(Head(lines), 5)))

\* `if self.changed_files is None:`
NeedsChangedFiles(c) == c.changed_files = None

\* `self.changed_files = changed_files`, reached only when no assertion failed
StoreChanged(c, parsed) ==
    IF parsed = None
    THEN [c |-> c, invoked |-> TRUE, res |-> Raised("AssertionError")]
    ELSE [c |-> [c EXCEPT !.changed_files = parsed],
          invoked |-> TRUE, res |-> Returned(parsed[1])]

\* Commit.get_changed_files
get_changed_files(c, out) ==
    IF ~NeedsChangedFiles(c)
    THEN [c |-> c, invoked |-> FALSE, res |-> Returned(c.changed_files[1])]
    ELSE IF out = RunFailed
    THEN [c |-> c, invoked |-> TRUE, res |-> Raised("CalledProcessError")]
    ELSE StoreChanged(c, changed_files_of(c, splitlines(decode_str(out[1]).s), <<>>))

\* Faulty variant, kept to show the property tells it apart: `or` for `and` between the two placeholder tests.
IsBinaryLine_Either(line_split) ==
    Len(line_split) = 3 /\ (line_split[1] = <<"-">> \/ line_split[2] = <<"-">>)

\* The test of one numstat line in get_binary_files.
IsBinaryLine(line_split) ==
    Len(line_split) = 3 /\ line_split[1] = <<"-">> /\ line_split[2] = <<"-">>

\* One line of get_binary_files: the path when the line is a binary record.
BinaryPath(line_split) ==
    IF IsBinaryLine(line_split) THEN <<Str(line_split[3])>> ELSE <<>>

\* The loop of get_binary_files over the lines of the log --numstat output.
RECURSIVE binary_files_of(_)
binary_files_of(lines) ==
    IF lines = <<>> THEN <<>>
    ELSE BinaryPath(split_sep(Head(lines), <<"\t">>, -1)) \o binary_files_of(Tail(lines))

\* `if self.binary_files is None:`
NeedsBinaryFiles(c) == c.binary_files = None

\* `self.binary_files = binary_files`
StoreBinary(c, parsed) ==
    [c |-> [c EXCEPT !.binary_files = Some(parsed)],
     invoked |-> TRUE, res |-> Returned(parsed)]

\* Commit.get_binary_files
get_binary_files(c, out) ==
    IF ~NeedsBinaryFiles(c)
    THEN [c |-> c, invoked |-> FALSE, res |-> Returned(c.binary_files[1])]
    ELSE IF out = RunFailed
    THEN [c |-> c, invoked |-> TRUE, res |-> Raised("CalledProcessError")]
    ELSE StoreBinary(c, binary_files_of(splitlines(decode_str(out[1]).s)))

\* The loop of get_new_commit_list: one Commit per line, in the order of the lines.
CommitsOf(ids, branch_name) ==
    Returned([commits |-> [i \in 1..Len(ids) |-> CommitRef(Str(ids[i]))],
              branch_name |-> branch_name])

\* Faulty variant, kept to show the property tells it apart: `output.split('\n')`, which opens a last, empty line.
get_new_commit_list_SplitNewline(out, branch_name) ==
    IF out = RunFailed THEN Raised("CalledProcessError")
    ELSE CommitsOf(split_sep(decode_str(out[1]).s, <<"\n">>, -1), branch_name)

\* Commit.get_new_commit_list on the rev-list output
get_new_commit_list(out, branch_name) ==
    IF out = RunFailed THEN Raised("CalledProcessError")
    ELSE CommitsOf(splitlines(decode_str(out[1]).s), branch_name)

----------------------------------------------------------------------------
(* CommittedFile                                                           *)

\* Faulty variant, kept to show the property tells it apart: `if not self.content:`, which takes an empty content for a missing one.
NeedsContentOf_Falsy(f) == f.content = None \/ f.content[1].s = <<>>

\* `if self.content is None:`
NeedsContentOf(f) == f.content = None

\* CommittedFile.get_content: [c |-> the file afterwards, invoked, res]
get_content(f, out) ==
    IF ~NeedsContentOf(f)
    THEN [c |-> f, invoked |-> FALSE, res |-> Returned(f.content[1])]
    ELSE IF out = RunFailed
    THEN [c |-> f, invoked |-> TRUE, res |-> Raised("CalledProcessError")]
    ELSE [c |-> [f EXCEPT !.content = out], invoked |-> TRUE, res |-> Returned(out[1])]

\* CommittedFile.regular / symlink (the mode of a file that came from no diff
\* record is None, and slicing it raises TypeError)
regular(f) == Take(f.mode[1].s, 2) = <<"1", "0">>
symlink(f) == Take(f.mode[1].s, 2) = <<"1", "2">>

\* `decode_str(content.split(None, 1)[0])`
FirstWord(g, words) ==
    IF words = <<>> THEN [g EXCEPT !.res = Raised("IndexError")]
    ELSE [g EXCEPT !.res = Returned(Some(decode_str(Bytes(words[1]))))]

\* get_shebang once the content is there
ShebangOf(g) ==
    IF ~g.res.ok THEN g
    ELSE IF ~startswith(g.res.val[1].s, kw_shebang) THEN [g EXCEPT !.res = Returned(None)]
    ELSE FirstWord(g, split_ws(strip(Drop(g.res.val[1].s, Len(kw_shebang))), 1))

\* CommittedFile.get_shebang; the value is None or Some(str).
get_shebang(f, out) ==
    IF f.mode = None THEN [c |-> f, invoked |-> FALSE, res |-> Raised("TypeError")]
    ELSE IF ~regular(f) THEN [c |-> f, invoked |-> FALSE, res |-> Returned(None)]
    ELSE ShebangOf(get_content(f, out))

\* `if rest_split: return decode_str(rest_split[0])`, else the last segment
EnvTarget(g, rest_split) ==
    IF rest_split # <<>>
    THEN [g EXCEPT !.res = Returned(Some(decode_str(Bytes(rest_split[1]))))]
    ELSE [g EXCEPT !.res = Returned(Some(Str(rsplit_last(g.res.val[1][1].s, <<"/">>))))]

\* get_shebang_exe once get_shebang answered.  The second get_content() finds
\* the content get_shebang() cached.
ShebangExeOf(g) ==
    IF ~g.res.ok THEN g
    ELSE IF g.res.val[1] = None \/ g.res.val[1][1].s = <<>>
    THEN [g EXCEPT !.res = Returned(None)]
    ELSE IF PyEq(g.res.val[1][1], Str(kw_env))
    THEN EnvTarget(g, split_ws(Drop(splitlines(g.c.content[1].s)[1], Len(kw_shebang_env)), 1))
    ELSE [g EXCEPT !.res = Returned(Some(Str(rsplit_last(g.res.val[1][1].s, <<"/">>))))]

\* CommittedFile.get_shebang_exe; the value is None or Some(str).
get_shebang_exe(f, out) == ShebangExeOf(get_shebang(f, out))

\* `if path.startswith('..'): return None`
LeavesRepository(path) == startswith(path, <<".", ".">>)

\* The end of get_symlink_target: the resolved path, unless it leaves.
TargetAt(g, path) ==
    IF LeavesRepository(path) THEN [g EXCEPT !.res = Returned(None)]
    ELSE [g EXCEPT !.res = Returned(Some(NewFile(Str(path), g.c.commit, None, None)))]

\* get_symlink_target once the content is there
TargetOf(g) ==
    IF ~g.res.ok THEN g
    ELSE IF isabs(g.res.val[1].s) THEN [g EXCEPT !.res = Returned(None)]
    ELSE TargetAt(g, normpath(joinpath(g.c.path.s, <<".", ".">>,
                                       decode_str(g.res.val[1]).s)))

\* CommittedFile.get_symlink_target; the value is None or Some(CommittedFile).
get_symlink_target(f, out) == TargetOf(get_content(f, out))

----------------------------------------------------------------------------
(* Commit.parse_tags, one loop iteration per step.                         *)

\* `self.get_message_lines()[0]`
FirstLine(g) ==
    IF ~g.res.ok THEN g
    ELSE IF g.res.val[1] = <<>> THEN [g EXCEPT !.res = Raised("IndexError")]
    ELSE [g EXCEPT !.res = Returned(g.res.val[1][1])]

\* Commit.get_summary: the first message line (IndexError when there is none)
get_summary(c, out) == FirstLine(body_accessor(c, "message_lines", out))

\* `while rest.startswith('[') and ']' in rest`
TagAhead(rest) == startswith(rest, <<"[">>) /\ contains(rest, <<"]">>)

\* The loop body: [tag |-> rest[1:end_index], rest |-> rest[end_index + 1:]]
CutAt(rest, end_index) ==
    [tag |-> SubSeq(rest, 2, end_index), rest |-> Drop(rest, end_index + 1)]

\* Faulty variant, kept to show the property tells it apart: `rest = rest[end_index:]`, which leaves the closing bracket.
StripTag_KeepBracket(rest) ==
    [tag |-> SubSeq(rest, 2, find(rest, <<"]">>)), rest |-> Drop(rest, find(rest, <<"]">>))]

StripTag(rest) == CutAt(rest, find(rest, <<"]">>))

----------------------------------------------------------------------------
(* The repository behind the command runner.                               *)

Id(i) == <<"c", Digits[i + 1]>>

IndexOf(id) == CHOOSE i \in 1..9 : Id(i) = id

ContributorText(name, stamp) ==
    <<name, " ", "<", name, "@", "x", ">", " ", stamp, " ", "z">>

NL == <<"\n">>

\* The lines of a commit object, as `git cat-file -p` prints them.
BodyText(parent_ids, author, committer, message) ==
    <<"t", "r", "e", "e", " ", "t">> \o NL
    \o join(<<>>, [i \in 1..Len(parent_ids) |-> kw_parent \o parent_ids[i] \o NL])
    \o author \o committer
    \o NL \o message

AuthorLine == kw_author \o ContributorText("A", "1") \o NL
CommitterLine == kw_committer \o ContributorText("C", "2") \o NL
\* a contributor line without its "> " separator
BrokenCommitterLine == kw_committer \o <<"C", " ", "<", "c">> \o NL

\* The members of a set of numbers, ascending.
RECURSIVE Ascending(_)
LeastFirst(S, m) == <<m>> \o Ascending(S \ {m})

Ascending(S) == IF S = {} THEN <<>> ELSE LeastFirst(S, MinOr(S, 0))

\* The commits reachable from the commits of S over parent links.
RECURSIVE Reach(_, _)
Grow(r, S, T) == IF T = S THEN S ELSE Reach(r, T)

Reach(r, S) == Grow(r, S, S \cup UNION {r.parents[c] : c \in S})

\* `git rev-list <tip> --not --all --reverse`: the commits reachable from the
\* tip and from no reference, oldest first (a commit is older than its number's
\* successors), one id per line.
NewCommits(r) == Reach(r, {r.tip}) \ Reach(r, r.refs)

IdLines(ids) == join(<<>>, [i \in 1..Len(ids) |-> Id(ids[i]) \o NL])

RevListOutput(r) == RunOutput(IdLines(Ascending(NewCommits(r))))

\* `git cat-file -p <id>` of a commit of the repository
CatFileOutput(r, id) ==
    RunOutput(BodyText([p \in 1..Cardinality(r.parents[IndexOf(id.s)]) |->
                          Id(Ascending(r.parents[IndexOf(id.s)])[p])],
                       AuthorLine, CommitterLine, <<"m">> \o NL))

Repositories ==
    {[parents |-> p, refs |-> refs, tip |-> tip] :
        p \in {q \in [1..MaxCommits -> SUBSET (1..MaxCommits)] :
                 \A c \in 1..MaxCommits : \A d \in q[c] : d < c},
        refs \in SUBSET (1..MaxCommits),
        tip \in 1..MaxCommits}

NoRepository == [parents |-> <<>>, refs |-> {}, tip |-> 0]

SeqsUpTo(S, n) == UNION {[1..k -> S] : k \in 0..n}

----------------------------------------------------------------------------
(* State.                                                                  *)

BodyOps == {"get_parents", "get_author", "get_committer", "get_message_lines"}

MemoOps == BodyOps \cup {"get_changed_files", "get_binary_files", "get_projects",
                         "file_get_projects", "get_content"}

NoCall == [op |-> "", arg |-> None, seen |-> None, ok |-> TRUE, val |-> None, exc |-> ""]

NoCommitList == None

IdleTags == [pc |-> "idle", tags |-> <<>>, rest |-> <<>>]

TheCommit == NewCommit(Str(Id(1)))

Mode644 == Str(<<"1", "0", "0", "6", "4", "4">>)
Mode755 == Str(<<"1", "0", "0", "7", "5", "5">>)
ModeLink == Str(<<"1", "2", "0", "0", "0", "0">>)
Mode000 == Str(<<"0", "0", "0", "0", "0", "0">>)

TheFile == NewFile(Str(<<"f">>), TheCommit, Some(Mode644), Some(Str(<<"b", "1">>)))

\* What every call records: its outcome, the runner output it consumed (None
\* when it invoked no command), the invocation count, and per memoized accessor
\* the value of its first successful call.
Finish(op, arg, out, r) ==
    /\ r.invoked => ncalls < MaxCalls
    /\ ret' = [op |-> op, arg |-> arg, seen |-> IF r.invoked THEN Some(out) ELSE None,
               ok |-> r.res.ok, val |-> r.res.val, exc |-> r.res.exc]
    /\ ncalls' = IF r.invoked THEN ncalls + 1 ELSE ncalls
    /\ first' = IF r.res.ok /\ op \in MemoOps /\ first[op] = None
                THEN [first EXCEPT ![op] = r.res.val] ELSE first

\* A call on the Commit under inspection.
OnCommit(op, out, r) ==
    /\ Finish(op, None, out, r)
    /\ commit' = r.c
    /\ UNCHANGED <<file, commit_list, repo, input, pt>>

\* A call on the CommittedFile under inspection.
OnFile(op, out, r) ==
    /\ Finish(op, None, out, r)
    /\ file' = r.c
    /\ UNCHANGED <<commit, commit_list, repo, input, pt>>

----------------------------------------------------------------------------
(* The session: one Commit and one CommittedFile, any sequence of accessor *)
(* calls, the runner free to fail or to answer differently at each call.   *)

BodyOutcomes ==
    {RunFailed,
     RunOutput(BodyText(<<Id(2)>>, AuthorLine, CommitterLine, <<"m">> \o NL)),
     RunOutput(BodyText(<<>>, AuthorLine, CommitterLine, <<>>)),
     RunOutput(BodyText(<<Id(2)>>, <<>>, CommitterLine, <<"m">> \o NL)),
     RunOutput(BodyText(<<>>, AuthorLine, <<>>, <<"m">> \o NL)),
     RunOutput(BodyText(<<Id(3)>>, AuthorLine, BrokenCommitterLine, <<"m">> \o NL))}

RemoteLine(url, direction) ==
    <<"o", "\t">> \o url \o <<" ", "(">> \o direction \o <<")">> \o NL

kw_fetch == <<"f", "e", "t", "c", "h">>
UrlP == <<"g", "@", "h", ":", "u", "/", "p", ".", "g", "i", "t">>
UrlQ == <<"/", "s", "/", "q">>

RemoteOutcomes ==
    {RunFailed,
     RunOutput(<<>>),
     RunOutput(RemoteLine(UrlP, kw_fetch)),
     RunOutput(RemoteLine(UrlP, kw_fetch) \o RemoteLine(UrlP, kw_push)),
     RunOutput(RemoteLine(UrlQ, kw_push))}

DiffLine(oldmode, newmode, oldid, newid, status, path) ==
    <<":">> \o oldmode \o <<" ">> \o newmode \o <<" ">> \o oldid \o <<" ">> \o newid
    \o <<" ">> \o status \o <<"\t">> \o path

NumstatLine(added, removed, path) == added \o <<"\t">> \o removed \o <<"\t">> \o path

SessionDiffOutcomes ==
    {RunFailed,
     RunOutput(<<>>),
     RunOutput(DiffLine(Mode000.s, Mode644.s, <<"0">>, <<"b">>, <<"A">>, <<"f">>) \o NL),
     RunOutput(<<"x">> \o NL)}

SessionNumstatOutcomes ==
    {RunFailed,
     RunOutput(<<>>),
     RunOutput(NumstatLine(<<"-">>, <<"-">>, <<"f">>) \o NL)}

SessionContentOutcomes == {RunFailed, RunOutput(<<>>), RunOutput(<<"x">>)}

\* The runner outcomes a call may meet: those of `outs` when it invokes its
\* command, none (and the runner is not asked) when it is served from the cache.
Outcomes(needed, outs) == IF needed THEN outs ELSE {None}

GetParents ==
    \E out \in Outcomes(NeedsContent(commit), BodyOutcomes) :
        OnCommit("get_parents", out, body_accessor(commit, "parents", out))

GetAuthor ==
    \E out \in Outcomes(NeedsContent(commit), BodyOutcomes) :
        OnCommit("get_author", out, body_accessor(commit, "author", out))

GetCommitter ==
    \E out \in Outcomes(NeedsContent(commit), BodyOutcomes) :
        OnCommit("get_committer", out, body_accessor(commit, "committer", out))

GetMessageLines ==
    \E out \in Outcomes(NeedsContent(commit), BodyOutcomes) :
        OnCommit("get_message_lines", out, body_accessor(commit, "message_lines", out))

GetProjects ==
    \E out \in Outcomes(NeedsProjects(commit), RemoteOutcomes) :
        OnCommit("get_projects", out, get_projects(commit, out))

FileGetProjects ==
    \E out \in Outcomes(NeedsProjects(file), RemoteOutcomes) :
        OnFile("file_get_projects", out, get_projects(file, out))

GetChangedFiles ==
    \E out \in Outcomes(NeedsChangedFiles(commit), SessionDiffOutcomes) :
        OnCommit("get_changed_files", out, get_changed_files(commit, out))

GetBinaryFiles ==
    \E out \in Outcomes(NeedsBinaryFiles(commit), SessionNumstatOutcomes) :
        OnCommit("get_binary_files", out, get_binary_files(commit, out))

GetContent ==
    \E out \in Outcomes(NeedsContentOf(file), SessionContentOutcomes) :
        OnFile("get_content", out, get_content(file, out))

Init ==
    /\ commit = TheCommit
    /\ file = TheFile
    /\ commit_list = NoCommitList
    /\ repo = NoRepository
    /\ input = None
    /\ pt = IdleTags
    /\ ret = NoCall
    /\ ncalls = 0
    /\ first = [op \in MemoOps |-> None]

Next ==
    \/ GetParents
    \/ GetAuthor
    \/ GetCommitter
    \/ GetMessageLines
    \/ GetProjects
    \/ FileGetProjects
    \/ GetChangedFiles
    \/ GetBinaryFiles
    \/ GetContent

Spec == Init /\ [][Next]_vars

----------------------------------------------------------------------------
(* A push: the commits of a repository, enumerated from the pushed tip,    *)
(* then inspected one by one.  The runner answers from the repository.     *)

Branches == {Str(<<"m">>), Str(<<"d">>)}

NoFirst == [op \in MemoOps |-> None]

InitGraph ==
    /\ repo \in Repositories
    /\ commit = NewCommit(Str(Id(repo.tip)))
    /\ file = TheFile
    /\ commit_list = NoCommitList
    /\ input = None
    /\ pt = IdleTags
    /\ ret = NoCall
    /\ ncalls = 0
    /\ first = NoFirst

\* tip.get_new_commit_list(branch_name)
NewCommitList(branch_name, out, res) ==
    /\ Finish("get_new_commit_list", Some(branch_name), out,
              [c |-> commit, invoked |-> TRUE, res |-> res])
    /\ commit_list' = IF res.ok THEN res.val ELSE commit_list
    /\ UNCHANGED <<commit, file, repo, input, pt>>

GraphGetNewCommitList ==
    \E branch_name \in Branches, out \in {RunFailed, RevListOutput(repo)} :
        NewCommitList(branch_name, out, get_new_commit_list(out, branch_name))

\* The caller turns to another commit of the list (`for commit in commit_list`).
GraphInspect ==
    /\ commit_list # NoCommitList
    /\ \E i \in 1..Len(commit_list[1].commits) :
          /\ commit_list[1].commits[i].commit_id # commit.commit_id
          /\ commit' = NewCommit(commit_list[1].commits[i].commit_id)
    /\ first' = NoFirst
    /\ UNCHANGED <<file, commit_list, repo, input, pt, ret, ncalls>>

GraphGetParents ==
    \E out \in Outcomes(NeedsContent(commit), {CatFileOutput(repo, commit.commit_id)}) :
        OnCommit("get_parents", out, body_accessor(commit, "parents", out))

NextGraph ==
    \/ GraphGetNewCommitList
    \/ GraphInspect
    \/ GraphGetParents

SpecGraph == InitGraph /\ [][NextGraph]_vars

----------------------------------------------------------------------------
(* get_changed_files on the diff-tree output of one commit.                *)

\* A raw diff-tree record, as git prints it:
\* ":<old mode> <new mode> <old id> <new id> <status>\t<path>".
DiffRecord(oldmode, newmode, oldid, newid, status, path) ==
    [wf |-> TRUE,
     f |-> <<oldmode, newmode, oldid, newid, status, path>>,
     text |-> DiffLine(oldmode, newmode, oldid, newid, status, path)]

\* A line that is no diff-tree record.
NoRecord(text) == [wf |-> FALSE, f |-> <<>>, text |-> text]

DiffPaths == {<<"f">>, <<"d", "/", "f">>, <<"a", " ", "b">>, <<" ", "a">>}

DiffLines ==
    {DiffRecord(Mode000.s, Mode644.s, <<"0">>, <<"b">>, <<"A">>, path) : path \in DiffPaths}
    \cup {DiffRecord(Mode644.s, ModeLink.s, <<"b">>, <<"e">>, <<"M">>, path) : path \in DiffPaths}
    \cup {NoRecord(<<":">> \o Mode000.s \o <<" ">> \o Mode644.s \o <<" ", "0", " ", "b", " ", "A">>),
          NoRecord(Mode000.s \o <<" ">> \o Mode644.s \o <<" ", "0", " ", "b", " ", "A", "\t", "f">>)}

\* The output of a command that prints the given lines.
Printed(lines) == RunOutput(join(<<>>, [i \in 1..Len(lines) |-> lines[i].text \o NL]))

InputsOf(lineset) ==
    {[lines |-> ls, out |-> Printed(ls)] : ls \in SeqsUpTo(lineset, MaxRecords)}

InitParser(inputs) ==
    /\ input \in inputs
    /\ commit = TheCommit
    /\ file = TheFile
    /\ commit_list = NoCommitList
    /\ repo = NoRepository
    /\ pt = IdleTags
    /\ ret = NoCall
    /\ ncalls = 0
    /\ first = NoFirst

InitDiff == InitParser(InputsOf(DiffLines))

DiffGetChangedFiles ==
    OnCommit("get_changed_files", input.out, get_changed_files(commit, input.out))

NextDiff == DiffGetChangedFiles

SpecDiff == InitDiff /\ [][NextDiff]_vars

----------------------------------------------------------------------------
(* get_binary_files on the log --numstat output of one commit.             *)

NumstatRecord(added, removed, path) ==
    [wf |-> TRUE, f |-> <<added, removed, path>>, text |-> NumstatLine(added, removed, path)]

\* `--pretty=format:%H -M100%`: the header line of the commit
NumstatHeader == NoRecord(Id(1) \o <<" ", "-", "M", "1", "0", "0", "%">>)

NumstatLines ==
    {NumstatRecord(added, removed, path) :
        added \in {<<"-">>, <<"3">>}, removed \in {<<"-">>, <<"1">>},
        path \in {<<"f">>, <<"a", " ", "b">>, <<" ", "a">>}}
    \cup {NumstatHeader, NoRecord(<<>>)}

InitNumstat == InitParser(InputsOf(NumstatLines))

NumstatGetBinaryFiles ==
    OnCommit("get_binary_files", input.out, get_binary_files(commit, input.out))

NextNumstat == NumstatGetBinaryFiles

SpecNumstat == InitNumstat /\ [][NextNumstat]_vars

----------------------------------------------------------------------------
(* A CommittedFile and its content: shebang and symlink target.            *)

FilePaths == {<<"l">>, <<"d", "/", "l">>, <<"d", "/", "e", "/", "l">>}

FileModes == {Mode644, Mode755, ModeLink}

\* Link targets: every string over '.', '/' and a name character.
LinkTargets == SeqsUpTo({".", "/", "a"}, MaxLink)

\* Scripts: a first line made of a marker, an interpreter path and arguments.
Scripts ==
    {marker \o interpreter \o arguments :
        marker \in {<<>>, <<"#">>, kw_shebang, kw_shebang \o <<" ">>},
        interpreter \in {<<>>, kw_env, kw_env \o <<"x">>, <<"/", "b", "/", "s", "h">>, <<"s", "h">>},
        arguments \in {<<>>, NL, <<" ", "p", "y">>, <<" ", "p", "y", " ", "-", "u">> \o NL,
                       <<" ", " ", "p", "y">> \o NL \o <<"x">>, NL \o <<"p", "y">>}}

InitFile ==
    /\ \E path \in FilePaths, mode \in FileModes :
          file = NewFile(Str(path), TheCommit, Some(mode), Some(Str(<<"b">>)))
    /\ input \in {RunOutput(content) : content \in LinkTargets \cup Scripts}
    /\ commit = TheCommit
    /\ commit_list = NoCommitList
    /\ repo = NoRepository
    /\ pt = IdleTags
    /\ ret = NoCall
    /\ ncalls = 0
    /\ first = NoFirst

FileGetContent == OnFile("get_content", input, get_content(file, input))

FileGetShebang == OnFile("get_shebang", input, get_shebang(file, input))

FileGetShebangExe == OnFile("get_shebang_exe", input, get_shebang_exe(file, input))

FileGetSymlinkTarget == OnFile("get_symlink_target", input, get_symlink_target(file, input))

NextFile ==
    \/ FileGetContent
    \/ FileGetShebang
    \/ FileGetShebangExe
    \/ FileGetSymlinkTarget

SpecFile == InitFile /\ [][NextFile]_vars

----------------------------------------------------------------------------
(* parse_tags on the summary line of a commit.                             *)

Summaries == SeqsUpTo({"[", "]", "a"}, MaxSummary)

InitTags ==
    /\ input \in {RunOutput(BodyText(<<>>, AuthorLine, CommitterLine,
                                     summary \o NL \o <<"b">> \o NL)) :
                     summary \in Summaries}
    /\ commit = TheCommit
    /\ file = TheFile
    /\ commit_list = NoCommitList
    /\ repo = NoRepository
    /\ pt = IdleTags
    /\ ret = NoCall
    /\ ncalls = 0
    /\ first = NoFirst

\* `tags = []; rest = self.get_summary()`
TagsEnter(r) ==
    /\ Finish("get_summary", None, input, r)
    /\ commit' = r.c
    /\ pt' = IF r.res.ok THEN [pc |-> "loop", tags |-> <<>>, rest |-> r.res.val[1].s]
             ELSE [pt EXCEPT !.pc = "done"]
    /\ UNCHANGED <<file, commit_list, repo, input>>

TagsBegin ==
    /\ pt.pc = "idle"
    /\ TagsEnter(get_summary(commit, input))

\* One iteration of the while loop.
TagsCut(cut) ==
    /\ pt' = [pt EXCEPT !.tags = Append(@, cut.tag), !.rest = cut.rest]
    /\ UNCHANGED <<commit, file, commit_list, repo, input, ret, ncalls, first>>

TagsStrip ==
    /\ pt.pc = "loop"
    /\ TagAhead(pt.rest)
    /\ TagsCut(StripTag(pt.rest))

\* `return tags, rest`
TagsReturn ==
    /\ pt.pc = "loop"
    /\ ~TagAhead(pt.rest)
    /\ pt' = [pt EXCEPT !.pc = "done"]
    /\ ret' = [op |-> "parse_tags", arg |-> None, seen |-> None, ok |-> TRUE,
               val |-> Some([tags |-> pt.tags, rest |-> pt.rest]), exc |-> ""]
    /\ UNCHANGED <<commit, file, commit_list, repo, input, ncalls, first>>

NextTags ==
    \/ TagsBegin
    \/ TagsStrip
    \/ TagsReturn

\* The code is synchronous: once parse_tags holds the summary, its loop runs
\* on until it returns.
TagsLoop == TagsStrip \/ TagsReturn

SpecTags == InitTags /\ [][NextTags]_vars /\ WF_vars(TagsLoop)

----------------------------------------------------------------------------
(* The claims.                                                             *)

\* C1: once an accessor's first call has returned, every later call of it
\* returns that same value and invokes no command; the four accessors of the
\* commit body share one fetch; an empty result is cached like any other.
C1_Memoized ==
    [][/\ \A op \in MemoOps :
             (ret'.op = op /\ first[op] # None)
                => (ret'.ok /\ ret'.val = first[op] /\ ncalls' = ncalls)
       /\ (ret'.op \in BodyOps /\ \E op \in BodyOps : first[op] # None)
             => ncalls' = ncalls]_vars

\* C1 witness: an empty file content served from the cache, after the commit
\* body was fetched too.
C1_EmptyContentFromCache ==
    /\ ret.op = "get_content"
    /\ ret.seen = None
    /\ ret.val = Some(Bytes(<<>>))
    /\ first["get_parents"] # None

\* C2: get_new_commit_list returns exactly the commits reachable from the tip
\* and from no reference, each once, oldest first, under the given branch name;
\* none when the tip is already reachable from a reference.
C2_NewCommitList ==
    (ret.op = "get_new_commit_list" /\ ret.ok) =>
        /\ ret.val[1].branch_name = ret.arg[1]
        /\ Len(ret.val[1].commits) = Cardinality(NewCommits(repo))
        /\ \A c \in NewCommits(repo) :
              \E i \in 1..Len(ret.val[1].commits) :
                 ret.val[1].commits[i].commit_id = Str(Id(c))
        /\ \A i, j \in 1..Len(ret.val[1].commits) :
              i < j => IndexOf(ret.val[1].commits[i].commit_id.s)
                         < IndexOf(ret.val[1].commits[j].commit_id.s)
        /\ (repo.tip \in Reach(repo, repo.refs) => ret.val[1].commits = <<>>)

\* C2 witness: a push that introduces several commits.
C2_SeveralNewCommits ==
    /\ ret.op = "get_new_commit_list"
    /\ ret.ok
    /\ Len(ret.val[1].commits) >= 2
    /\ repo.refs # {}

\* C3: get_changed_files returns one CommittedFile per diff record, in order,
\* with the record's path, new mode and new object id, at this commit; a line
\* that is no record makes it raise AssertionError and cache nothing.
C3_ChangedFiles ==
    (ret.op = "get_changed_files" /\ ret.seen # None) =>
        IF \A i \in 1..Len(input.lines) : input.lines[i].wf
        THEN /\ ret.ok
             /\ Len(ret.val[1]) = Len(input.lines)
             /\ \A i \in 1..Len(input.lines) :
                   /\ ret.val[1][i].path = Str(input.lines[i].f[6])
                   /\ ret.val[1][i].mode = Some(Str(input.lines[i].f[2]))
                   /\ ret.val[1][i].object_id = Some(Str(input.lines[i].f[4]))
                   /\ ret.val[1][i].commit = CommitRef(commit.commit_id)
        ELSE /\ ~ret.ok
             /\ ret.exc = "AssertionError"
             /\ commit.changed_files = None

\* The paths of the numstat records whose two counts are both "-", in order.
BinaryRecords(lines) ==
    SelectSeq(lines, LAMBDA l : l.wf /\ l.f[1] = <<"-">> /\ l.f[2] = <<"-">>)

\* C4: get_binary_files returns, in order, the paths of exactly the numstat
\* records whose added and removed counts are both "-"; other records and
\* lines that are no records contribute nothing.
C4_BinaryFiles ==
    (ret.op = "get_binary_files" /\ ret.ok) =>
        /\ Len(ret.val[1]) = Len(BinaryRecords(input.lines))
        /\ \A i \in 1..Len(ret.val[1]) :
              ret.val[1][i] = Str(BinaryRecords(input.lines)[i].f[3])

\* C4 witness: a binary record kept and a text record dropped.
C4_OneOfTwoIsBinary ==
    /\ ret.op = "get_binary_files"
    /\ ret.ok
    /\ Len(ret.val[1]) = 1
    /\ Len(input.lines) = 2
    /\ input.lines[1].wf
    /\ input.lines[2].wf

\* Whether following the components from `depth` directories below the root
\* ever climbs above the root.
RECURSIVE Climbs(_, _)
Climbs(comps, depth) ==
    IF comps = <<>> THEN FALSE
    ELSE IF Head(comps) = <<>> \/ Head(comps) = <<".">> THEN Climbs(Tail(comps), depth)
    ELSE IF Head(comps) = <<".", ".">>
         THEN depth = 0 \/ Climbs(Tail(comps), depth - 1)
    ELSE Climbs(Tail(comps), depth + 1)

\* Whether a relative link target, followed from the directory of the link at
\* `path`, leaves the repository.
Escapes(path, target) ==
    Climbs(split_sep(target, <<"/">>, -1), Cardinality(Occurrences(path, <<"/">>)))

\* C5: get_symlink_target returns a CommittedFile at the same commit, for the
\* normalized resolved path, exactly when the target is relative and does not
\* escape the repository root, and None exactly otherwise.
C5_SymlinkTarget ==
    (ret.op = "get_symlink_target" /\ ret.ok) =>
        /\ (ret.val[1] # None)
              <=> (~isabs(input[1].s) /\ ~Escapes(file.path.s, input[1].s))
        /\ ret.val[1] # None =>
              /\ ret.val[1][1].commit = file.commit
              /\ ret.val[1][1].path
                    = Str(normpath(joinpath(file.path.s, <<".", ".">>, input[1].s)))

\* The words that follow the first /usr/bin/env of a line.
WordsAfterEnv(line) ==
    IF ~contains(line, kw_env) THEN <<>>
    ELSE split_ws(Drop(line, find(line, kw_env) + Len(kw_env)), -1)

FirstLineOf(content) == IF splitlines(content) = <<>> THEN <<>> ELSE splitlines(content)[1]

\* C6: on a regular file, get_shebang_exe returns None without a shebang, the
\* first word after /usr/bin/env on the first line when the shebang is exactly
\* /usr/bin/env, and else the last '/' segment of the shebang, for every first
\* line get_shebang accepts.
C6_ShebangExe ==
    (ret.op = "get_shebang_exe" /\ regular(file) /\ get_shebang(file, input).res.ok) =>
        /\ ret.ok
        /\ IF get_shebang(file, input).res.val[1] = None THEN ret.val[1] = None
           ELSE IF get_shebang(file, input).res.val[1][1] = Str(kw_env)
           THEN WordsAfterEnv(FirstLineOf(input[1].s)) # <<>> =>
                   ret.val[1] = Some(Str(WordsAfterEnv(FirstLineOf(input[1].s))[1]))
           ELSE ret.val[1]
                   = Some(Str(rsplit_last(get_shebang(file, input).res.val[1][1].s, <<"/">>)))

\* [t1, ..., tn] as "[t1]...[tn]"
RECURSIVE Bracketed(_)
Bracketed(tags) ==
    IF tags = <<>> THEN <<>>
    ELSE <<"[">> \o Head(tags) \o <<"]">> \o Bracketed(Tail(tags))

\* The summary parse_tags read: the first message line of the fetched commit.
Summary == commit.message_lines[1][1].s

TagsResult ==
    (pt.pc = "done" /\ ret.op = "parse_tags") =>
        /\ Bracketed(ret.val[1].tags) \o ret.val[1].rest = Summary
        /\ \A i \in 1..Len(ret.val[1].tags) : ~contains(ret.val[1].tags[i], <<"]">>)
        /\ ~startswith(ret.val[1].rest, <<"[">>) \/ ~contains(ret.val[1].rest, <<"]">>)
        /\ ~startswith(Summary, <<"[">>) =>
              (ret.val[1].tags = <<>> /\ ret.val[1].rest = Summary)

\* C7: the loop of parse_tags terminates, and the bracketed tags followed by the rest give
\* back the summary; no tag holds ']'; the rest does not start with '[' or
\* holds no ']'; a summary not starting with '[' has no tags.
C7_ParseTags == []TagsResult /\ ((pt.pc = "loop") ~> (pt.pc = "done"))

\* C7 witness: two tags were stripped.
C7_TwoTags ==
    /\ pt.pc = "done"
    /\ ret.op = "parse_tags"
    /\ Len(ret.val[1].tags) = 2

\* Whether no header line of the commit object (a line before the first
\* blank line) starts with the keyword.
LacksHeader(body, keyword) ==
    \A i \in 1..(FirstBlank(splitlines(body)) - 1) :
        ~startswith(splitlines(body)[i], keyword)

\* C8: when the fetched body lacks the author or the committer header, the
\* accessor fails and the commit is not marked as fetched.
C8_MalformedBodyRejected ==
    (/\ ret.op \in BodyOps
     /\ ret.seen # None
     /\ ret.seen[1] # RunFailed
     /\ (LacksHeader(ret.seen[1][1].s, kw_author)
           \/ LacksHeader(ret.seen[1][1].s, kw_committer)))
        => (~ret.ok /\ ~commit.content_fetched)

\* Whether no line of the remote listing holds "push".
NoPushLine(listing) ==
    \A i \in 1..Len(splitlines(listing)) : ~contains(splitlines(listing)[i], kw_push)

\* C9: get_projects, of a Commit and of a CommittedFile, returns None without
\* raising when no line of the remote listing holds "push"; both give the same
\* answer for the same listing.
C9_NoProjectIsSilent ==
    /\ (/\ ret.op \in {"get_projects", "file_get_projects"}
        /\ ret.seen # None
        /\ ret.seen[1] # RunFailed
        /\ NoPushLine(ret.seen[1][1].s))
          => (ret.ok /\ ret.val = Some(None))
    /\ \A out \in RemoteOutcomes :
          get_projects(TheCommit, out).res = get_projects(TheFile, out).res

\* C10: a parent returned by get_parents equals the Commit of the same id in
\* the list get_new_commit_list returned, and only that one.
C10_ParentEqualsListedCommit ==
    (ret.op = "get_parents" /\ ret.ok /\ commit_list # NoCommitList) =>
        \A i \in 1..Len(ret.val[1]), j \in 1..Len(commit_list[1].commits) :
            (ret.val[1][i].commit_id.s = commit_list[1].commits[j].commit_id.s)
               <=> Commit_eq(ret.val[1][i], commit_list[1].commits[j])

====
